---- MODULE Spec2Model ----
(***************************************************************************)
(* Model of the B200 reservation app (src/app.py): the sheet of            *)
(* reservation rows, the record normalizer, the per-date aggregation, the  *)
(* colour classifier, the booking form handler and the phone lookup.       *)
(*                                                                         *)
(* Representation of values                                                *)
(*   datetime.date        day ordinal, 1 = 2025-01-01 (years 2025..2026)   *)
(*   "YYYY-MM-DD" string  <<y, m, d>>; <<>> is a blank / NaN date cell     *)
(*   datetime.time        minutes after midnight; "%H:%M" is <<h, m>>      *)
(*   datetime.datetime    half seconds; "%Y-%m-%d %H:%M:%S" is <<seconds>> *)
(*   a tickets cell       [t |-> kind, n |-> value], kind one of           *)
(*                        "num" (a number), "text" (non-numeric text),     *)
(*                        "blank" (empty cell), "missing" (column absent)  *)
(*   a phone string       a sequence of one-character strings              *)
(***************************************************************************)
EXTENDS Integers, Sequences, FiniteSets, TLC

(* ---------------------------- bounds ----------------------------------- *)
\* counts fed to the classifier: 0..MaxCount
MaxCount == 64
\* selectable days of the booking window used as form inputs
MaxDay == 2
\* half seconds of one run
MaxClock == 2
\* clicks on the booking button that pass validation, in a run of the whole application
MaxSubs == 1
\* the same, in a run of bookings and phone lookups
MaxBookings == 2
\* rows put into the sheet by hand
MaxRaw == 3

(* --------------------------- constants --------------------------------- *)
LOW_MAX == 22
MID_MAX == 32

GREEN == "#c8e6c9"
ORANGE == "#ffe6b3"
RED == "#ffcccc"
GREY_BG == "#e5e7eb"

(* ---------------------------- calendar --------------------------------- *)
FirstYear == 2025
LastYear == 2026

DaysInMonth(m) ==
    IF m = 2 THEN 28 ELSE IF m \in {4, 6, 9, 11} THEN 30 ELSE 31

RECURSIVE days_before(_)
days_before(m) == IF m = 1 THEN 0 ELSE days_before(m - 1) + DaysInMonth(m - 1)

\* the days of the year before the first of month m
DaysBeforeTable == [m \in 1..12 |-> days_before(m)]
DaysBefore(m) == DaysBeforeTable[m]

\* datetime.date(y, m, d)
date(y, m, d) == (y - FirstYear) * 365 + DaysBefore(m) + d

\* day.strftime("%Y-%m-%d")
strftime_ymd(day) ==
    LET y == FirstYear + ((day - 1) \div 365)
        doy == ((day - 1) % 365) + 1
        m == CHOOSE k \in 1..12 : DaysBefore(k) < doy /\ doy <= DaysBefore(k) + DaysInMonth(k)
    IN <<y, m, doy - DaysBefore(m)>>

\* NaT, the result of a failed date parse
NaT == 0

\* pd.to_datetime(cell, errors="coerce").dt.date, for one cell
to_datetime(s) ==
    IF /\ Len(s) = 3
       /\ s[1] \in FirstYear..LastYear
       /\ s[2] \in 1..12
       /\ s[3] \in 1..DaysInMonth(s[2])
    THEN date(s[1], s[2], s[3])
    ELSE NaT

\* t.strftime("%H:%M")
strftime_hm(t) == <<t \div 60, t % 60>>

\* now.strftime("%Y-%m-%d %H:%M:%S"): the part of a second is dropped
strftime_hms(t) == <<t \div 2>>

OPEN_DATE == date(2025, 10, 1)
max_date == date(2025, 10, 29)

(* --------------------------- classifier -------------------------------- *)
color_for_count_wrong(n) ==
    IF n < LOW_MAX THEN GREEN
    ELSE IF n <= MID_MAX THEN ORANGE
    ELSE RED

color_for_count(n) ==
    IF n <= LOW_MAX THEN GREEN
    ELSE IF n <= MID_MAX THEN ORANGE
    ELSE RED

(* ---------------------------- tickets cells ---------------------------- *)
NumCell(k) == [t |-> "num", n |-> k]
TextCell == [t |-> "text", n |-> 0]
BlankCell == [t |-> "blank", n |-> 0]
MissingCell == [t |-> "missing", n |-> 0]
NaN == [t |-> "nan", n |-> 0]

\* pd.to_numeric(cell, errors="coerce"): a number, or text that reads as one, is
\* kept; anything else becomes NaN
to_numeric(c) == IF c.t \in {"num", "numtext"} THEN NumCell(c.n) ELSE NaN

\* .fillna(0).astype(int)
fillna0_wrong(c) == IF c.t = "nan" \/ c.n < 0 THEN NumCell(0) ELSE c

fillna0(c) == IF c.t = "nan" THEN NumCell(0) ELSE c

\* pd.to_numeric(col, errors="coerce").fillna(0).astype(int), for one cell
coerce_tickets(c) == fillna0(to_numeric(c))

(* ---------------------------- normalizer ------------------------------- *)
COLUMNS == <<"name", "email", "phone", "date", "tickets", "start_time", "end_time", "reservation_time">>

\* pd.to_datetime(cell, errors="coerce") for a reservation_time cell: half seconds, or -1 (NaT)
to_timestamp(s) == IF Len(s) = 1 /\ s[1] >= 0 THEN s[1] * 2 ELSE -1

\* one row of _normalize_df; now is pd.Timestamp.now()
normalize_row(r, now) ==
    [name             |-> r.name,
     email            |-> r.email,
     phone            |-> r.phone,
     date             |-> IF to_datetime(r.date) = NaT THEN <<>> ELSE strftime_ymd(to_datetime(r.date)),
     tickets          |-> coerce_tickets(IF r.tickets.t = "missing" THEN BlankCell ELSE r.tickets),
     start_time       |-> r.start_time,
     end_time         |-> r.end_time,
     reservation_time |-> strftime_hms(IF to_timestamp(r.reservation_time) = -1 THEN now
                                       ELSE to_timestamp(r.reservation_time))]

_normalize_df(df, now) ==
    IF df = <<>> THEN <<>> ELSE [k \in 1..Len(df) |-> normalize_row(df[k], now)]

(* ---------------------------- aggregator ------------------------------- *)
\* one step of groupby("date")["tickets"].sum(): rows whose key is NaT are dropped
add_to_group_wrong(acc, r) ==
    LET d == to_datetime(r.date)
        k == coerce_tickets(r.tickets).n
    IN IF d = NaT THEN acc
       ELSE IF d \in DOMAIN acc THEN [acc EXCEPT ![d] = k] ELSE acc @@ (d :> k)

add_to_group(acc, r) ==
    LET d == to_datetime(r.date)
        k == coerce_tickets(r.tickets).n
    IN IF d = NaT THEN acc
       ELSE IF d \in DOMAIN acc THEN [acc EXCEPT ![d] = @ + k] ELSE acc @@ (d :> k)

RECURSIVE groupby_sum(_, _)
groupby_sum(rows, acc) ==
    IF rows = <<>> THEN acc ELSE groupby_sum(Tail(rows), add_to_group(acc, Head(rows)))

\* the result is the mapping date -> tickets (the two columns of the frame)
get_counts_by_date(df) == IF df = <<>> THEN <<>> ELSE groupby_sum(df, <<>>)

\* counts_df.loc[counts_df["date"] == day, "tickets"], 0 when there is no such row
count_on(counts_df, day) == IF day \in DOMAIN counts_df THEN counts_df[day] ELSE 0

(* ------------------------------ phones --------------------------------- *)
Digits == {"0", "1", "2", "3", "4", "5", "6", "7", "8", "9"}

isdigit(ch) == ch \in Digits

normalize_phone_wrong(s) == s

normalize_phone(s) == SelectSeq(s, isdigit)

(* ------------------------------ lookup --------------------------------- *)
\* df[df["phone_norm"] == target]
select_mine(df, phone_input) ==
    SelectSeq(df, LAMBDA r : normalize_phone(r.phone) = normalize_phone(phone_input))

\* the key of a row under groupby(["reservation_time", "tickets"])
group_key(r) == <<r.reservation_time, r.tickets.n>>

group_keys(mine) == {group_key(mine[k]) : k \in 1..Len(mine)}

\* the dates of the rows of one group, NaT left out (min and max skip it)
group_dates(mine, key) ==
    {to_datetime(mine[k].date) : k \in {j \in 1..Len(mine) :
        group_key(mine[j]) = key /\ to_datetime(mine[j].date) # NaT}}

set_min(S) == IF S = {} THEN NaT ELSE CHOOSE x \in S : \A y \in S : x <= y
set_max(S) == IF S = {} THEN NaT ELSE CHOOSE x \in S : \A y \in S : y <= x

\* .agg(start_date=("date", "min"), end_date=("date", "max")), one row per key
agg_rows(mine) ==
    {[reservation_time |-> key[1],
      tickets          |-> key[2],
      start_date       |-> set_min(group_dates(mine, key)),
      end_date         |-> set_max(group_dates(mine, key))] : key \in group_keys(mine)}

\* the order of the frame after groupby (keys ascending) and sort_values("start_date")
summary_before(a, b) ==
    \/ a.start_date < b.start_date
    \/ /\ a.start_date = b.start_date
       /\ \/ a.reservation_time[1] < b.reservation_time[1]
          \/ a.reservation_time = b.reservation_time /\ a.tickets < b.tickets

RECURSIVE sort_values(_)
sort_values(S) ==
    IF S = {} THEN <<>>
    ELSE LET first == CHOOSE a \in S : \A b \in S \ {a} : summary_before(a, b)
         IN <<first>> \o sort_values(S \ {first})

\* the frame "grouped" of page_my_reservations
grouped_of(mine) == sort_values(agg_rows(mine))

(* ------------------------------- state --------------------------------- *)
VARIABLES
    header,               \* row 1 of the worksheet "reservations"
    store,                \* its data rows, top to bottom
    clock,                \* the wall clock, in half seconds
    admin_authenticated,  \* st.session_state["admin_authenticated"]
    run,                  \* the run of the booking button handler: its locals and position
    ui,                   \* what the last script run rendered
    subs,                 \* history: the clicks on the booking button that passed validation
    n,                    \* classifier: the count handed to color_for_count
    bg                    \* classifier: the colour it returned

vars == <<header, store, clock, admin_authenticated, run, ui, subs, n, bg>>

sheet_vars == <<header, store>>
pure_vars == <<n, bg>>

(* ------------------------------ inputs --------------------------------- *)
PhoneDashed == <<"0", "1", "-", "2">>
PhonePlain == <<"0", "1", "2">>
PhoneOther == <<"0", "3">>
Phones == {<<>>, PhoneDashed, PhonePlain, PhoneOther}
\* st.date_input(min_value=OPEN_DATE, max_value=max_date): each date lies in the window
DateInputs == {d \in OPEN_DATE..max_date : d < OPEN_DATE + MaxDay}
\* st.number_input(min_value=1, step=1)
TicketInputs == {1, 2}

\* the first two days of the booking window
LookupDates == {OPEN_DATE, OPEN_DATE + 1}

\* a form with every field in order
GoodForms(phones, dates) ==
    [name : {"kim"}, email : {"kim@example.com"}, phone : phones \ {<<>>}, deposit_paid : {TRUE},
     start_time : {540}, end_time : {1080},
     start_date : dates, end_date : dates, tickets : TicketInputs]

\* a form with a defect: a text field empty, the deposit not confirmed, or end_time
\* not later than start_time
Defective(f) ==
    \/ f.name = ""
    \/ f.email = ""
    \/ f.phone = <<>>
    \/ ~f.deposit_paid
    \/ f.end_time <= f.start_time

\* the form as the widgets show it first, with the text fields filled in
DefaultForm ==
    [name |-> "kim", email |-> "kim@example.com", phone |-> PhonePlain, deposit_paid |-> TRUE,
     start_time |-> 540, end_time |-> 1080,
     start_date |-> OPEN_DATE, end_date |-> OPEN_DATE + 1, tickets |-> 1]

\* that form with one of the checked fields changed
DefectiveForms ==
    {[DefaultForm EXCEPT !.name = ""],
     [DefaultForm EXCEPT !.email = ""],
     [DefaultForm EXCEPT !.phone = <<>>],
     [DefaultForm EXCEPT !.deposit_paid = FALSE],
     [DefaultForm EXCEPT !.end_time = 540],
     [DefaultForm EXCEPT !.start_time = 1080, !.end_time = 540]}

\* the forms of a run of the whole application: one user, one phone number
AppForms == GoodForms({PhonePlain}, DateInputs) \cup DefectiveForms

\* the forms of a run of bookings and lookups: two spellings of one phone number
LookupForms == GoodForms({PhoneDashed, PhonePlain}, LookupDates)

LegacyHeader == <<"name", "email", "phone", "date", "tickets", "reservation_time">>

Idle ==
    [pc |-> "idle", i |-> 0, name |-> "", email |-> "", phone |-> <<>>,
     start_date |-> 0, end_date |-> 0, tickets |-> 0, delta_days |-> 0,
     stime |-> <<>>, etime |-> <<>>, nowstr |-> <<>>]

Screen(page, msg) ==
    [page |-> page, msg |-> msg, cells |-> <<>>, counts |-> <<>>, mine |-> <<>>, grouped |-> <<>>]

MonthDays(year, month) == {date(year, month, d) : d \in 1..DaysInMonth(month)}

(* --------------------------- sheet access ------------------------------ *)
\* get_ws(): the worksheet is created with the header, or its header is corrected;
\* the data rows are not touched
get_ws(h) == COLUMNS

\* ws.get_all_records() then _normalize_df
load_reservations(rows, now) == _normalize_df(rows, now)

save_reservation_wrong(rows, new_reservation) ==
    <<[name             |-> new_reservation.name,
       email            |-> new_reservation.email,
       phone            |-> new_reservation.phone,
       date             |-> new_reservation.date,
       tickets          |-> NumCell(new_reservation.tickets),
       start_time       |-> new_reservation.start_time,
       end_time         |-> new_reservation.end_time,
       reservation_time |-> new_reservation.reservation_time]>> \o rows

\* ws.append_row(values): one row more at the end of the sheet
save_reservation(rows, new_reservation) ==
    Append(rows,
        [name             |-> new_reservation.name,
         email            |-> new_reservation.email,
         phone            |-> new_reservation.phone,
         date             |-> new_reservation.date,
         tickets          |-> NumCell(new_reservation.tickets),
         start_time       |-> new_reservation.start_time,
         end_time         |-> new_reservation.end_time,
         reservation_time |-> new_reservation.reservation_time])

(* ------------------------------ booking -------------------------------- *)
form_ok_wrong(name, email, phone, deposit_paid, start_time, end_time) ==
    name # "" /\ email # "" /\ phone # <<>> /\ end_time > start_time

\* the condition of line 214
form_ok(name, email, phone, deposit_paid, start_time, end_time) ==
    name # "" /\ email # "" /\ phone # <<>> /\ deposit_paid /\ end_time > start_time

\* the dict handed to save_reservation for the i-th day of the loop
day_row_wrong(r) ==
    [name             |-> r.name,
     email            |-> r.email,
     phone            |-> r.phone,
     date             |-> strftime_ymd(r.start_date),
     tickets          |-> r.tickets,
     start_time       |-> r.stime,
     end_time         |-> r.etime,
     reservation_time |-> r.nowstr]

day_row(r) ==
    [name             |-> r.name,
     email            |-> r.email,
     phone            |-> r.phone,
     date             |-> strftime_ymd(r.start_date + r.i),
     tickets          |-> r.tickets,
     start_time       |-> r.stime,
     end_time         |-> r.etime,
     reservation_time |-> r.nowstr]

\* "예약하기" is clicked: the form is checked and, when it passes, the loop starts
ClickBooking(name, email, phone, deposit_paid, start_time, end_time, start_date, end_date, tickets) ==
    /\ ~admin_authenticated
    /\ run.pc = "idle"
    /\ IF form_ok(name, email, phone, deposit_paid, start_time, end_time)
       THEN /\ run' = [pc |-> "loop", i |-> 0, name |-> name, email |-> email, phone |-> phone,
                       start_date |-> start_date, end_date |-> end_date, tickets |-> tickets,
                       delta_days |-> end_date - start_date,
                       stime |-> strftime_hm(start_time), etime |-> strftime_hm(end_time),
                       nowstr |-> strftime_hms(clock)]
            /\ subs' = Append(subs, [phone |-> phone, start_date |-> start_date, end_date |-> end_date,
                                     tickets |-> tickets, nowstr |-> strftime_hms(clock),
                                     base |-> Len(store), saved |-> 0, status |-> "running"])
            /\ ui' = Screen("booking", "none")
       ELSE /\ ui' = Screen("booking", "warning")
            /\ UNCHANGED <<run, subs>>
    /\ UNCHANGED <<sheet_vars, clock, admin_authenticated, pure_vars>>

\* one pass of the loop body: save_reservation returns
SaveDay ==
    /\ run.pc = "loop"
    /\ run.i < run.delta_days + 1
    /\ store' = save_reservation(store, day_row(run))
    /\ header' = get_ws(header)
    /\ run' = [run EXCEPT !.i = @ + 1]
    /\ subs' = [subs EXCEPT ![Len(subs)].saved = @ + 1]
    /\ UNCHANGED <<clock, admin_authenticated, ui, pure_vars>>

\* a failing pass that takes back the rows the submission had written
SaveFails_wrong ==
    /\ run.pc = "loop"
    /\ run.i < run.delta_days + 1
    /\ run' = Idle
    /\ ui' = Screen("booking", "error")
    /\ subs' = [subs EXCEPT ![Len(subs)].status = "failed"]
    /\ store' = SubSeq(store, 1, subs[Len(subs)].base)
    /\ UNCHANGED <<header, clock, admin_authenticated, pure_vars>>

\* one pass of the loop body: save_reservation raises, the except branch reports it
SaveFails ==
    /\ run.pc = "loop"
    /\ run.i < run.delta_days + 1
    /\ run' = Idle
    /\ ui' = Screen("booking", "error")
    /\ subs' = [subs EXCEPT ![Len(subs)].status = "failed"]
    /\ UNCHANGED <<sheet_vars, clock, admin_authenticated, pure_vars>>

\* the loop is over: st.success
BookingDone ==
    /\ run.pc = "loop"
    /\ ~(run.i < run.delta_days + 1)
    /\ run' = Idle
    /\ ui' = Screen("booking", "success")
    /\ subs' = [subs EXCEPT ![Len(subs)].status = "completed"]
    /\ UNCHANGED <<sheet_vars, clock, admin_authenticated, pure_vars>>

(* ------------------------------- views --------------------------------- *)
calendar_cells(counts_df, year, month) ==
    [day \in MonthDays(year, month) |->
        IF day < OPEN_DATE THEN GREY_BG ELSE color_for_count(count_on(counts_df, day))]

\* page_calendar; read_ok = FALSE when load_reservations raises
PageCalendar(year, month, read_ok) ==
    /\ ~admin_authenticated
    /\ run.pc = "idle"
    /\ LET counts_df == IF read_ok THEN get_counts_by_date(load_reservations(store, clock)) ELSE <<>>
       IN ui' = [Screen("calendar", IF read_ok THEN "none" ELSE "warning") EXCEPT
                    !.cells = calendar_cells(counts_df, year, month), !.counts = counts_df]
    /\ header' = IF read_ok THEN get_ws(header) ELSE header
    /\ UNCHANGED <<store, clock, admin_authenticated, run, subs, pure_vars>>

\* what page_my_reservations renders when "내 예약 조회" is clicked
lookup_screen(rows, now, phone_input, read_ok) ==
    IF ~read_ok THEN Screen("my_reservations", "error")
    ELSE LET frame == load_reservations(rows, now)
             mine == select_mine(frame, phone_input)
         IN IF frame = <<>> THEN Screen("my_reservations", "info")
            ELSE IF mine = <<>> THEN Screen("my_reservations", "warning")
            ELSE [Screen("my_reservations", "success") EXCEPT
                     !.mine = mine, !.grouped = grouped_of(mine)]

PageMyReservations(phone_input, read_ok) ==
    /\ ~admin_authenticated
    /\ run.pc = "idle"
    /\ ui' = lookup_screen(store, clock, phone_input, read_ok)
    /\ header' = IF read_ok THEN get_ws(header) ELSE header
    /\ UNCHANGED <<store, clock, admin_authenticated, run, subs, pure_vars>>

\* what show_admin_interface renders
admin_screen(rows, now, year, month, read_ok) ==
    IF ~read_ok THEN Screen("admin", "error")
    ELSE LET frame == load_reservations(rows, now)
             reservation_counts == groupby_sum(frame, <<>>)
         IN IF frame = <<>> THEN Screen("admin", "info")
            ELSE [Screen("admin", "none") EXCEPT
                     !.counts = reservation_counts,
                     !.cells = [day \in MonthDays(year, month) |->
                                   color_for_count(count_on(reservation_counts, day))]]

ShowAdminInterface(year, month, read_ok) ==
    /\ admin_authenticated
    /\ run.pc = "idle"
    /\ ui' = admin_screen(store, clock, year, month, read_ok)
    /\ header' = IF read_ok THEN get_ws(header) ELSE header
    /\ UNCHANGED <<store, clock, admin_authenticated, run, subs, pure_vars>>

\* "접속하기" with the right password: the flag is set and the admin page is rendered
AdminLogin(year, month, read_ok) ==
    /\ run.pc = "idle"
    /\ admin_authenticated' = TRUE
    /\ ui' = admin_screen(store, clock, year, month, read_ok)
    /\ header' = IF read_ok THEN get_ws(header) ELSE header
    /\ UNCHANGED <<store, clock, run, subs, pure_vars>>

\* "접속하기" with a wrong password: the flag is cleared, the sidebar shows the error
AdminLoginWrong ==
    /\ run.pc = "idle"
    /\ admin_authenticated' = FALSE
    /\ ui' = Screen("sidebar", "error")
    /\ UNCHANGED <<sheet_vars, clock, run, subs, pure_vars>>

Tick ==
    /\ clock < MaxClock
    /\ clock' = clock + 1
    /\ UNCHANGED <<sheet_vars, admin_authenticated, run, ui, subs, pure_vars>>

(* --------------------------- the application --------------------------- *)
Init ==
    /\ header \in {COLUMNS, LegacyHeader, <<>>}
    /\ store = <<>>
    /\ clock = 0
    /\ admin_authenticated = FALSE
    /\ run = Idle
    /\ ui = Screen("none", "none")
    /\ subs = <<>>
    /\ n = 0
    /\ bg = ""

Submit(f) ==
    ClickBooking(f.name, f.email, f.phone, f.deposit_paid, f.start_time, f.end_time,
                 f.start_date, f.end_date, f.tickets)

\* the whole application, one user, one phone number
Next ==
    \/ \E f \in AppForms : (Len(subs) < MaxSubs \/ Defective(f)) /\ Submit(f)
    \/ SaveDay
    \/ SaveFails
    \/ BookingDone
    \/ \E read_ok \in BOOLEAN : PageCalendar(FirstYear, 10, read_ok)
    \/ \E phone_input \in {PhoneDashed, PhoneOther}, read_ok \in BOOLEAN : PageMyReservations(phone_input, read_ok)
    \/ \E read_ok \in BOOLEAN : ShowAdminInterface(FirstYear, 10, read_ok)
    \/ \E read_ok \in BOOLEAN : AdminLogin(FirstYear, 10, read_ok)
    \/ AdminLoginWrong
    \/ Tick

Spec == Init /\ [][Next]_vars

\* bookings whose rows are all saved, made under two spellings of one phone number,
\* and phone lookups
NextLookup ==
    \/ \E f \in LookupForms : Len(subs) < MaxBookings /\ Submit(f)
    \/ SaveDay
    \/ BookingDone
    \/ \E phone_input \in Phones, read_ok \in BOOLEAN : PageMyReservations(phone_input, read_ok)
    \/ Tick

SpecLookup == Init /\ [][NextLookup]_vars

(* ------------------------ a sheet edited by hand ----------------------- *)
RawRow(phone, date_cell, tickets_cell, reservation_time) ==
    [name |-> "kim", email |-> "kim@example.com", phone |-> phone, date |-> date_cell,
     tickets |-> tickets_cell, start_time |-> <<9, 0>>, end_time |-> <<18, 0>>,
     reservation_time |-> reservation_time]

\* rows as an editor of the spreadsheet may leave them
RawRows ==
    {RawRow(PhonePlain,  <<2025, 10, 1>>, NumCell(5),  <<0>>),
     RawRow(PhoneDashed, <<2025, 10, 1>>, NumCell(-3), <<0>>),
     RawRow(PhoneOther,  <<2025, 10, 2>>, [t |-> "numtext", n |-> 4], <<0>>),
     RawRow(PhonePlain,  <<>>,            TextCell,    <<1>>),
     RawRow(PhoneDashed, <<2025, 2, 30>>, BlankCell,   <<>>),
     RawRow(PhoneOther,  <<2025, 10, 1>>, MissingCell, <<>>)}

\* a row is added to the sheet outside the application
EditSheet(r) ==
    /\ store' = Append(store, r)
    /\ UNCHANGED <<header, clock, admin_authenticated, run, ui, subs, pure_vars>>

NextSheet ==
    \/ \E r \in RawRows : Len(store) < MaxRaw /\ EditSheet(r)
    \/ \E read_ok \in BOOLEAN : PageCalendar(FirstYear, 10, read_ok)
    \/ \E phone_input \in Phones, read_ok \in BOOLEAN : PageMyReservations(phone_input, read_ok)

SpecSheet == Init /\ [][NextSheet]_vars

(* --------------------------- the classifier ---------------------------- *)
\* a count is handed to color_for_count
Classify ==
    /\ bg = ""
    /\ bg' = color_for_count(n)
    /\ UNCHANGED <<sheet_vars, clock, admin_authenticated, run, ui, subs, n>>

NextCount ==
    /\ bg # ""
    /\ n' \in 0..MaxCount
    /\ bg' = ""
    /\ UNCHANGED <<sheet_vars, clock, admin_authenticated, run, ui, subs>>

InitClassify ==
    /\ header = COLUMNS
    /\ store = <<>>
    /\ clock = 0
    /\ admin_authenticated = FALSE
    /\ run = Idle
    /\ ui = Screen("none", "none")
    /\ subs = <<>>
    /\ n \in 0..MaxCount
    /\ bg = ""

NextClassify == Classify \/ NextCount

SpecClassify == InitClassify /\ [][NextClassify]_vars

(* ====================== properties of the classifier =================== *)

\* C1: for every count n >= 0, color_for_count returns green (ample) iff n <= 22,
\* orange (nearly full) iff 22 < n <= 32 and red (unavailable) iff n > 32; so 22 is
\* green, 23 and 32 are orange, 33 is red.
C1_Bands ==
    bg # "" =>
        /\ bg \in {GREEN, ORANGE, RED}
        /\ (bg = GREEN) <=> (n <= 22)
        /\ (bg = ORANGE) <=> (22 < n /\ n <= 32)
        /\ (bg = RED) <=> (n > 32)
        /\ (n = 22 => bg = GREEN)
        /\ (n \in {23, 32} => bg = ORANGE)
        /\ (n = 33 => bg = RED)

C1_Witness == n = 23 /\ bg = ORANGE

(* ================= properties of the sheet edited by hand ============== *)
RowsOn(frame, d) == {k \in 1..Len(frame) : to_datetime(frame[k].date) = d}

RECURSIVE SumTickets(_, _)
SumTickets(frame, K) ==
    IF K = {} THEN 0
    ELSE LET k == CHOOSE x \in K : TRUE
         IN frame[k].tickets.n + SumTickets(frame, K \ {k})

Swap(s, a, b) == [s EXCEPT ![a] = s[b], ![b] = s[a]]

\* C6: counts_by_date maps each date that occurs in the frame to the sum of tickets
\* over the rows of that date, whatever the order of the rows; an empty frame gives
\* an empty mapping; rows whose date is blank or unparsable add to no total and
\* create no key.
C6_Counts ==
    LET Frame == load_reservations(store, clock)
    IN
        LET counts == get_counts_by_date(Frame)
            dates == {to_datetime(Frame[k].date) : k \in 1..Len(Frame)} \ {NaT}
        IN /\ DOMAIN counts = dates
           /\ \A d \in dates : counts[d] = SumTickets(Frame, RowsOn(Frame, d))
           /\ \A a, b \in 1..Len(Frame) : get_counts_by_date(Swap(Frame, a, b)) = counts
           /\ (Frame = <<>> => counts = <<>>)

C6_Witness ==
    LET Frame == load_reservations(store, clock)
    IN
        /\ ui.page = "calendar"
        /\ ui.msg = "none"
        /\ ui.counts = get_counts_by_date(Frame)
        /\ \E d \in DOMAIN ui.counts : Cardinality(RowsOn(Frame, d)) >= 2
        /\ \E k \in 1..Len(Frame) : to_datetime(Frame[k].date) = NaT

RECURSIVE DigitsOnly(_)
DigitsOnly(s) ==
    IF s = <<>> THEN <<>>
    ELSE IF Head(s) \in {"0", "1", "2", "3", "4", "5", "6", "7", "8", "9"}
         THEN <<Head(s)>> \o DigitsOnly(Tail(s))
         ELSE DigitsOnly(Tail(s))

\* C8: a lookup selects exactly the rows whose phone without its non-digit characters
\* equals the query without its non-digit characters (a dashed query finds rows
\* stored without dashes and the reverse); when it selects no row it shows an empty
\* "not found" result and no error.
C8_Lookup ==
    LET Frame == load_reservations(store, clock)
    IN
        \A q \in Phones :
            LET scr == lookup_screen(store, clock, q, TRUE)
                want == SelectSeq(Frame, LAMBDA r : DigitsOnly(r.phone) = DigitsOnly(q))
            IN /\ scr.mine = want
               /\ (want # <<>> => scr.msg = "success")
               /\ (want = <<>> => scr.msg \in {"info", "warning"} /\ scr.grouped = <<>>)
               /\ (q = PhoneDashed =>
                      \A k \in 1..Len(Frame) : Frame[k].phone = PhonePlain =>
                          \E j \in 1..Len(scr.mine) : scr.mine[j] = Frame[k])
               /\ (q = PhonePlain =>
                      \A k \in 1..Len(Frame) : Frame[k].phone = PhoneDashed =>
                          \E j \in 1..Len(scr.mine) : scr.mine[j] = Frame[k])

C8_Witness ==
    /\ ui = lookup_screen(store, clock, PhoneDashed, TRUE)
    /\ ui.msg = "success"
    /\ \E j \in 1..Len(ui.mine) : ui.mine[j].phone = PhonePlain
    /\ \E k \in 1..Len(store) : store[k].phone = PhoneOther

\* C9 as claimed: every normalized row has an integer tickets value that is >= 0,
\* whatever the raw cell holds, and so has every value summed by counts_by_date.
C9_NonNegative ==
    LET Frame == load_reservations(store, clock)
    IN
        \A k \in 1..Len(Frame) :
            /\ Frame[k].tickets.t = "num"
            /\ Frame[k].tickets.n >= 0
            /\ coerce_tickets(Frame[k].tickets).n >= 0

\* C9 amended: every normalized row has an integer tickets value; it is 0 when the raw
\* cell is missing, blank or non-numeric text, and the raw number itself when the cell
\* holds an integer, so it is negative exactly when the raw number is negative; the
\* value summed by counts_by_date is the same value.
C9_Coerced ==
    LET Frame == load_reservations(store, clock)
    IN
        \A k \in 1..Len(Frame) :
            LET raw == store[k].tickets
                t == Frame[k].tickets
            IN /\ t.t = "num"
               /\ t.n \in Int
               /\ (raw.t \in {"missing", "blank", "text"} => t.n = 0)
               /\ (raw.t \in {"num", "numtext"} => t.n = raw.n)
               /\ (t.n < 0 <=> (raw.t \in {"num", "numtext"} /\ raw.n < 0))
               /\ coerce_tickets(t) = t

C9_Witness ==
    LET Frame == load_reservations(store, clock)
    IN
        /\ ui.page = "calendar"
        /\ ui.counts = get_counts_by_date(Frame)
        /\ \E d \in DOMAIN ui.counts : ui.counts[d] < 0
        /\ \E k \in 1..Len(store) : store[k].tickets.t = "text" /\ Frame[k].tickets = NumCell(0)

(* ==================== properties of the application ==================== *)
Days(k) == subs[k].end_date - subs[k].start_date + 1

\* the rows of the sheet written for the k-th click that passed validation
SubRows(k) == SubSeq(store, subs[k].base + 1, subs[k].base + subs[k].saved)

\* where the rows of the k-th click end: nothing of it lies beyond
NoRowBeyond(k) ==
    IF k = Len(subs) THEN Len(store) = subs[k].base + subs[k].saved
    ELSE subs[k + 1].base = subs[k].base + subs[k].saved

\* the j-th row written for the k-th click is the row of the j-th day of its range
IsDayRow(r, k, j) ==
    /\ to_datetime(r.date) = subs[k].start_date + j - 1
    /\ r.date = <<2025, 10, subs[k].start_date - OPEN_DATE + j>>
    /\ r.tickets = NumCell(subs[k].tickets)
    /\ r.phone = subs[k].phone
    /\ r.reservation_time = subs[k].nowstr

\* C2: a booking reported as completed for start_date <= end_date has appended exactly
\* end_date - start_date + 1 rows, one per day of the range in ascending order, all
\* with the same reservation_time, name, email, phone, tickets, start_time and
\* end_time, differing only in date.
C2_OneRowPerDay ==
    \A k \in 1..Len(subs) :
        (subs[k].status = "completed" /\ subs[k].start_date <= subs[k].end_date) =>
            /\ subs[k].saved = Days(k)
            /\ NoRowBeyond(k)
            /\ \A j \in 1..Len(SubRows(k)) : IsDayRow(SubRows(k)[j], k, j)
            /\ \A a, b \in 1..Len(SubRows(k)) :
                  [SubRows(k)[a] EXCEPT !.date = <<>>] = [SubRows(k)[b] EXCEPT !.date = <<>>]

C2_Witness ==
    /\ ui = Screen("booking", "success")
    /\ subs # <<>>
    /\ subs[Len(subs)].status = "completed"
    /\ subs[Len(subs)].end_date > subs[Len(subs)].start_date
    /\ Len(SubRows(Len(subs))) >= 2

\* C3: a click with an empty name, email or phone, with the deposit not confirmed, or
\* with end_time not later than start_time shows the validation warning and appends
\* nothing: the handler ends there and the sheet is as before.
C3_Rejected ==
    [][(run.pc = "idle" /\ ui'.page = "booking") =>
          \A f \in AppForms :
              (Defective(f) /\ Submit(f)) =>
                  /\ ui' = Screen("booking", "warning")
                  /\ run' = Idle
                  /\ store' = store
                  /\ subs' = subs]_vars

C3_Witness == ui = Screen("booking", "warning") /\ store # <<>>

\* C4 as claimed: a click whose start_date is later than its end_date, whose dates lie
\* outside 2025-10-01..2025-10-29 or whose tickets is below 1 is never reported as a
\* completed booking and appends no rows.
C4_DatesChecked ==
    \A k \in 1..Len(subs) :
        (\/ subs[k].start_date > subs[k].end_date
         \/ subs[k].start_date \notin date(2025, 10, 1)..date(2025, 10, 29)
         \/ subs[k].end_date \notin date(2025, 10, 1)..date(2025, 10, 29)
         \/ subs[k].tickets < 1) =>
            subs[k].status # "completed" /\ subs[k].saved = 0

\* C5: when the save of a day fails, the rows of the days before it stay in the sheet,
\* no later day is saved, and the booking is reported as failed, never as completed:
\* the sheet holds a prefix, in date order, of the rows of that booking.
C5_PartialBooking ==
    \A k \in 1..Len(subs) :
        subs[k].status = "failed" =>
            /\ subs[k].saved < Days(k)
            /\ NoRowBeyond(k)
            /\ \A j \in 1..Len(SubRows(k)) : IsDayRow(SubRows(k)[j], k, j)
            /\ (k = Len(subs) /\ ui.page = "booking" => ui.msg \in {"error", "warning"})

C5_Witness ==
    /\ ui = Screen("booking", "error")
    /\ subs # <<>>
    /\ subs[Len(subs)].status = "failed"
    /\ subs[Len(subs)].saved = 1
    /\ Len(SubRows(Len(subs))) = 1

IsPrefix(s, t) == Len(s) <= Len(t) /\ SubSeq(t, 1, Len(s)) = s

\* C10: the data rows are append-only: every step keeps the rows that were there,
\* unchanged and in order; calendar view, admin view and phone lookup change no row;
\* a row is added only at the end, and only by a booking that passed validation.
C10_AppendOnly ==
    [][/\ IsPrefix(store, store')
       /\ store' # store =>
             /\ Len(store') = Len(store) + 1
             /\ run.pc = "loop"
             /\ run.name # "" /\ run.email # "" /\ run.phone # <<>>
             /\ run.etime[1] * 60 + run.etime[2] > run.stime[1] * 60 + run.stime[2]
       /\ ui'.page \in {"calendar", "admin", "my_reservations", "sidebar"} => store' = store]_vars

C10_Witness ==
    /\ Len(store) >= 2
    /\ ui.page = "admin"
    /\ ui.msg = "none"
    /\ DOMAIN ui.counts # {}

(* ================== properties of bookings and lookups ================= *)
AllCompleted == run.pc = "idle" /\ \A k \in 1..Len(subs) : subs[k].status = "completed"

\* the clicks made under phone q, whatever its punctuation, for a range of days
SubsOf(q) ==
    {k \in 1..Len(subs) :
        DigitsOnly(subs[k].phone) = DigitsOnly(q) /\ subs[k].start_date <= subs[k].end_date}

Ascending(g) == \A a, b \in 1..Len(g) : a < b => g[a].start_date <= g[b].start_date

\* C7 as claimed: after successful bookings a lookup shows one summary for each booking
\* made with that phone, with the first and last day of its range and its quantity,
\* ordered by start_date.
C7_OnePerBooking ==
    (AllCompleted /\ \A k \in 1..Len(subs) : subs[k].start_date <= subs[k].end_date) =>
        \A q \in Phones :
            LET g == lookup_screen(store, clock, q, TRUE).grouped
            IN /\ Len(g) = Cardinality(SubsOf(q))
               /\ \A k \in SubsOf(q) : \E a \in 1..Len(g) :
                     /\ g[a].start_date = subs[k].start_date
                     /\ g[a].end_date = subs[k].end_date
                     /\ g[a].tickets = subs[k].tickets
               /\ Ascending(g)

\* the clicks of SubsOf(q) that share the second of submission and the quantity
Merged(q, key) == {k \in SubsOf(q) : <<subs[k].nowstr, subs[k].tickets>> = key}

\* what the lookup does: after successful bookings it shows one summary for each distinct
\* pair (reservation_time, tickets) among the bookings made with that phone that saved
\* a row; bookings of one phone made in the same second for the same quantity are
\* shown as one summary, from the earliest first day to the latest last day among
\* them; the summaries are ordered by start_date.
C7_OnePerKey ==
    AllCompleted =>
        \A q \in Phones :
            LET scr == lookup_screen(store, clock, q, TRUE)
                g == scr.grouped
                keys == {<<subs[k].nowstr, subs[k].tickets>> : k \in SubsOf(q)}
            IN /\ Len(g) = Cardinality(keys)
               /\ (scr.msg = "success") <=> (SubsOf(q) # {})
               /\ \A key \in keys : \E a \in 1..Len(g) :
                     /\ g[a].reservation_time = key[1]
                     /\ g[a].tickets = key[2]
                     /\ g[a].start_date = set_min({subs[k].start_date : k \in Merged(q, key)})
                     /\ g[a].end_date = set_max({subs[k].end_date : k \in Merged(q, key)})
               /\ Ascending(g)

C7_Witness ==
    /\ AllCompleted
    /\ ui = lookup_screen(store, clock, PhonePlain, TRUE)
    /\ Len(ui.grouped) = 2
    /\ Len(subs) = 2
    /\ subs[1].phone = PhoneDashed
    /\ subs[1].nowstr = subs[2].nowstr
    /\ subs[1].tickets # subs[2].tickets

====
